---- MODULE Spec2Model ----
(***************************************************************************)
(* Model of sieve_of_eratosthenes (src/jpamb/timer.c, lines 7-28): the     *)
(* n-th prime by a bounded Sieve of Eratosthenes.  One call is a sequence  *)
(* of steps, one per statement of the C function; pc is the position in    *)
(* the function.  The variables n, limit, is_prime, count, i, j are the C  *)
(* variables of the same names.                                            *)
(*                                                                         *)
(* The C type int is modelled as a two's-complement integer of IntBits     *)
(* bits.  The program's int has 32 bits; the model scales the width down   *)
(* so that the inputs whose arithmetic leaves the int range are small      *)
(* enough to sieve.  Arithmetic that is undefined in C (a double -> int    *)
(* conversion out of range, a signed overflow, an access outside the       *)
(* buffer) is a choice among the outcomes a build produces.                *)
(***************************************************************************)
EXTENDS Integers, Sequences, FiniteSets

\* ------------------------------------------------------------ bounds
\* Width of the model's int (the program's int has 32 bits).
IntBits == 7
\* The inputs of the checked range are 1..MaxN; -MaxNeg..0 are the
\* degenerate inputs.
MaxN == 10
MaxNeg == 5

IntMax == 2^(IntBits - 1) - 1
IntMin == -(2^(IntBits - 1))
Modulus == 2^IntBits

\* "No value": a C variable that has not been assigned (or no return value).
\* It lies outside the int range, so it is never the value of an int.
Unset == IntMin - 1

\* Inputs whose computation leaves the int range at the model's width:
\* 13 (2*i overflows at i = 37), 16 (j += i overflows), 17 (limit itself
\* is out of range), IntMax.
OverflowInputs == {13, 16, 17, IntMax}
Inputs == ((-MaxNeg)..MaxN) \cup OverflowInputs

VARIABLES
    pc,        \* position in sieve_of_eratosthenes
    n,         \* the argument
    limit,     \* int limit (line 9)
    bufstate,  \* the pointer is_prime: "none", "live", "null", "freed"
    is_prime,  \* the cells of the buffer, indices 0..limit, while live
    beyond,    \* the byte of memory right after the buffer (index limit+1)
    count,     \* int count (line 18)
    i,         \* int i (line 18)
    j,         \* int j (line 22)
    ret,       \* the value returned (line 8 or 27)
    outcome,   \* how the call ended: "running", "returned", "exit1", "segv"
    prevN,     \* argument of the last earlier call that returned
    prevRet    \* value that call returned

vars == <<pc, n, limit, bufstate, is_prime, beyond, count, i, j, ret,
          outcome, prevN, prevRet>>

\* ------------------------------------------------ arithmetic of int
\* A mathematical integer reduced to the int range (two's complement).
Wrap(x) == ((x - IntMin) % Modulus) + IntMin

\* ceil(n*log(n) + n*log(log(n))) in double arithmetic for n = 2, 3, ...
\* (line 9), tabulated: entry k is the value for n = k + 1.
LimitTable ==
    << 1,4,7,11,15,19,23,27,32,36,41,46,51,56,61,66,72,77,82,88,93,99,105,
       110,116,122,128,133,139,145,151,157,163,169,175,182,188,194,200,207,
       213,219,226,232,238,245,251,258,264,271,277,284,291,297,304,311,317,
       324,331,337,344,351,358,365,372,378,385,392,399,406,413,420,427,434,
       441,448,455,462,469,476,483,491,498,505,512,519,526,534,541,548,555,
       563,570,577,584,592,599,606,614,621,628,636,643,651,658,665,673,680,
       688,695,703,710,718,725,733,740,748,755,763,770,778,786,793,801,808,
       816 >>

\* The double value of line 9's right-hand side, for n >= 2.
CeilEstimate(k) == LimitTable[k - 1]

\* Whether that double converts to int exactly.  For n = 1 the value is
\* -infinity (log(0)); for n >= 2 it is the tabulated one.
EstimateFits(k) == k >= 2 /\ CeilEstimate(k) <= IntMax

\* The values `int limit = ceil(...)` can store: the exact one when it is in
\* range; otherwise the conversion is undefined, and builds store the most
\* negative int (x86) or saturate to one end of the range (ARM).
LimitOutcomes(k) ==
    IF EstimateFits(k) THEN {CeilEstimate(k)} ELSE {IntMin, IntMax}

\* Line 8: the guard of the early return (variant: written n < 1).
IsDegenerateMut(k) == k < 1
IsDegenerate(k) == k <= 1

\* Line 10: the element count handed to calloc, limit + 1 in int arithmetic.
AllocCount(l) == Wrap(l + 1)

\* Line 12: the NULL test on the pointer calloc returned (variant: the test
\* is missing, so it never holds).
IsNullMut(b) == FALSE
IsNull(b) == b = "null"

\* Line 19: the loop condition i <= limit + 1 (variant: written i <= limit).
ScanInRangeMut(x, l) == x <= l
ScanInRange(x, l) == x <= Wrap(l + 1)

\* Line 19: i++ (variant: the increment is missing).
NextIMut(x) == x
NextI(x) == Wrap(x + 1)

\* Line 22: int j = i * 2.
MarkStart(x) == Wrap(x * 2)

\* Line 22: j += i.
NextJ(y, x) == Wrap(y + x)

\* Whether index k is a cell of the buffer (line 10: limit + 1 cells).
InBuffer(k) == bufstate = "live" /\ k \in DOMAIN is_prime

\* Line 20: the byte read by is_prime[k].  Index limit + 1 is the byte right
\* after the buffer, whose content the call does not control.
Read(k) == IF InBuffer(k) THEN is_prime[k] ELSE beyond

\* ------------------------------------------------------------ actions
Init ==
    /\ pc = "entry"
    /\ n \in Inputs
    /\ limit = Unset
    /\ bufstate = "none"
    /\ is_prime = << >>
    /\ beyond = 0
    /\ count = Unset
    /\ i = Unset
    /\ j = Unset
    /\ ret = Unset
    /\ outcome = "running"
    /\ prevN = Unset
    /\ prevRet = Unset

\* Line 8: if (n <= 1) { return 2; }
EarlyReturn ==
    /\ pc = "entry"
    /\ IsDegenerate(n)
    /\ ret' = 2
    /\ outcome' = "returned"
    /\ pc' = "done"
    /\ UNCHANGED <<n, limit, bufstate, is_prime, beyond, count, i, j,
                   prevN, prevRet>>

\* Line 9: int limit = ceil(n * log(n) + n * log(log(n)));
ComputeLimit ==
    /\ pc = "entry"
    /\ ~IsDegenerate(n)
    /\ limit' \in LimitOutcomes(n)
    /\ pc' = "calloc"
    /\ UNCHANGED <<n, bufstate, is_prime, beyond, count, i, j, ret, outcome,
                   prevN, prevRet>>

\* Line 10: calloc(limit + 1, sizeof(char)).  The int count is converted to
\* size_t: a negative one becomes a size no allocator can serve.  A request
\* that can be served gets limit + 1 zeroed cells, or fails (NULL) when
\* memory is short; the byte after the cells holds whatever the heap left.
Calloc ==
    /\ pc = "calloc"
    /\ \/ /\ AllocCount(limit) >= 1
          /\ bufstate' = "live"
          /\ is_prime' = [k \in 0..(AllocCount(limit) - 1) |-> 0]
          /\ beyond' \in {0, 1}
       \/ /\ bufstate' = "null"
          /\ is_prime' = << >>
          /\ beyond' = 0
    /\ pc' = "nullcheck"
    /\ UNCHANGED <<n, limit, count, i, j, ret, outcome, prevN, prevRet>>

\* Lines 12-16: if (is_prime == NULL) { ...; exit(1); }
AllocFailed ==
    /\ pc = "nullcheck"
    /\ IsNull(bufstate)
    /\ outcome' = "exit1"
    /\ pc' = "exited"
    /\ UNCHANGED <<n, limit, bufstate, is_prime, beyond, count, i, j, ret,
                   prevN, prevRet>>

\* Line 18: int count = 1, i = 2;
LoopInit ==
    /\ pc = "nullcheck"
    /\ ~IsNull(bufstate)
    /\ count' = 1
    /\ i' = 2
    /\ pc' = "for_test"
    /\ UNCHANGED <<n, limit, bufstate, is_prime, beyond, j, ret, outcome,
                   prevN, prevRet>>

\* Line 19: the test i <= limit + 1 of the scan loop.
ScanTest ==
    /\ pc = "for_test"
    /\ pc' = IF ScanInRange(i, limit) THEN "read" ELSE "free"
    /\ UNCHANGED <<n, limit, bufstate, is_prime, beyond, count, i, j, ret,
                   outcome, prevN, prevRet>>

\* Line 20, is_prime[i] != 0: i is skipped.
ScanComposite ==
    /\ pc = "read"
    /\ Read(i) # 0
    /\ pc' = "incr"
    /\ UNCHANGED <<n, limit, bufstate, is_prime, beyond, count, i, j, ret,
                   outcome, prevN, prevRet>>

\* Lines 20-21, is_prime[i] == 0 and count++ == n: break.
ScanBreak ==
    /\ pc = "read"
    /\ Read(i) = 0
    /\ count = n
    /\ count' = Wrap(count + 1)
    /\ pc' = "free"
    /\ UNCHANGED <<n, limit, bufstate, is_prime, beyond, i, j, ret, outcome,
                   prevN, prevRet>>

\* Lines 20-22, is_prime[i] == 0 and count++ != n: start marking at j = i*2.
ScanPrime ==
    /\ pc = "read"
    /\ Read(i) = 0
    /\ count # n
    /\ count' = Wrap(count + 1)
    /\ j' = MarkStart(i)
    /\ pc' = "mark_test"
    /\ UNCHANGED <<n, limit, bufstate, is_prime, beyond, i, ret, outcome,
                   prevN, prevRet>>

\* Line 22: the test j <= limit of the marking loop.
MarkTest ==
    /\ pc = "mark_test"
    /\ pc' = IF j <= limit THEN "mark_write" ELSE "incr"
    /\ UNCHANGED <<n, limit, bufstate, is_prime, beyond, count, i, j, ret,
                   outcome, prevN, prevRet>>

\* Line 22: is_prime[j] = 1; j += i, the index being a cell of the buffer.
MarkWrite ==
    /\ pc = "mark_write"
    /\ InBuffer(j)
    /\ is_prime' = [is_prime EXCEPT ![j] = 1]
    /\ j' = NextJ(j, i)
    /\ pc' = "mark_test"
    /\ UNCHANGED <<n, limit, bufstate, beyond, count, i, ret, outcome,
                   prevN, prevRet>>

\* Line 22: is_prime[j] = 1 with j outside the buffer (j wrapped to a
\* negative int).  The store lands in memory the call does not own: the
\* process is killed, or the store goes through and the loop goes on.
MarkWriteOutside ==
    /\ pc = "mark_write"
    /\ ~InBuffer(j)
    /\ \/ /\ outcome' = "segv"
          /\ pc' = "crashed"
          /\ j' = j
       \/ /\ outcome' = outcome
          /\ pc' = "mark_test"
          /\ j' = NextJ(j, i)
    /\ UNCHANGED <<n, limit, bufstate, is_prime, beyond, count, i, ret,
                   prevN, prevRet>>

\* Line 19: i++.
ScanIncr ==
    /\ pc = "incr"
    /\ i' = NextI(i)
    /\ pc' = "for_test"
    /\ UNCHANGED <<n, limit, bufstate, is_prime, beyond, count, j, ret,
                   outcome, prevN, prevRet>>

\* Lines 26-27: free(is_prime); return i;
FreeAndReturn ==
    /\ pc = "free"
    /\ bufstate' = "freed"
    /\ is_prime' = << >>
    /\ ret' = i
    /\ outcome' = "returned"
    /\ pc' = "done"
    /\ UNCHANGED <<n, limit, beyond, count, i, j, prevN, prevRet>>

\* The steps of one call.
CallStep ==
    \/ EarlyReturn
    \/ ComputeLimit
    \/ Calloc
    \/ AllocFailed
    \/ LoopInit
    \/ ScanTest
    \/ ScanComposite
    \/ ScanBreak
    \/ ScanPrime
    \/ MarkTest
    \/ MarkWrite
    \/ MarkWriteOutside
    \/ ScanIncr
    \/ FreeAndReturn

\* Lines 30-35 (sieve): the function is called again, with any argument.  The
\* locals of the new call are fresh; what the earlier call returned is kept
\* by the caller only.
NewCall ==
    /\ pc \in {"done", "exited", "crashed"}
    /\ n' \in Inputs
    /\ prevN' = IF outcome = "returned" THEN n ELSE prevN
    /\ prevRet' = IF outcome = "returned" THEN ret ELSE prevRet
    /\ pc' = "entry"
    /\ limit' = Unset
    /\ bufstate' = "none"
    /\ is_prime' = << >>
    /\ beyond' = 0
    /\ count' = Unset
    /\ i' = Unset
    /\ j' = Unset
    /\ ret' = Unset
    /\ outcome' = "running"

Next == CallStep \/ NewCall

Spec == Init /\ [][Next]_vars

\* One call run to completion: the function is synchronous and
\* single-threaded, so a step that can be taken is taken.
LiveSpec == Init /\ [][CallStep]_vars /\ WF_vars(CallStep)

\* ------------------------------------------------- reference notions
\* Primality by trial division, and the ascending prime sequence 2, 3, 5, ...
IsPrimeNumber(k) == k >= 2 /\ \A d \in 2..(k - 1) : k % d # 0
PrimesBelow(k) == {p \in 2..(k - 1) : IsPrimeNumber(p)}
NthPrime(k) ==
    CHOOSE p \in 2..(k * k + 1) :
        IsPrimeNumber(p) /\ Cardinality(PrimesBelow(p)) = k - 1

\* The call has returned a value.
Returned == pc = "done" /\ outcome = "returned"
\* The scan loop ended because its condition failed, not by break.
Exhausted == i # Unset /\ ~ScanInRange(i, limit)
\* The input lies in the checked range.
InCheckedRange(k) == k \in 1..MaxN

\* ------------------------------------------------------------ claims

\* C1: for every n of the checked range the value returned is the n-th
\* prime of the ascending sequence 2, 3, 5, 7, 11, ...
C1_ReturnsNthPrime ==
    (Returned /\ InCheckedRange(n)) => ret = NthPrime(n)

\* C2: for every n >= 2, every index read by the scan loop and every index
\* written by the marking loop is a cell 0..limit of the buffer at the moment
\* of the access.
C2_AccessesInBuffer ==
    n >= 2 =>
        /\ (pc = "read" => i \in 0..limit)
        /\ (pc = "mark_write" => j \in 0..limit)

\* C3: when the scan loop exhausts its range without breaking, the call
\* ends with an error and returns no value (never the loop index).
C3_ExhaustionSurfaced ==
    (pc = "done" /\ n >= 2 /\ Exhausted) =>
        (outcome # "returned" /\ ret = Unset)

\* C4: for every n <= 1 the call returns 2 at once: once it has left its
\* entry it is done with value 2, having computed no limit, allocated no
\* buffer, run no scan or marking step and signalled no error.
C4_DegenerateReturnsTwo ==
    (n <= 1 /\ pc # "entry") =>
        /\ pc = "done"
        /\ outcome = "returned"
        /\ ret = 2
        /\ limit = Unset
        /\ bufstate = "none"
        /\ count = Unset /\ i = Unset /\ j = Unset

C4_Witness == Returned /\ n = -MaxNeg /\ ret = 2

\* C5: monotonicity over the checked range: whenever the calls for k and
\* k + 1 (k >= 1) have both returned, the value for k + 1 is strictly
\* greater than the value for k.
C5_Monotone ==
    (Returned /\ prevRet # Unset /\ InCheckedRange(n) /\ InCheckedRange(prevN)) =>
        /\ (n = prevN + 1 => ret > prevRet)
        /\ (prevN = n + 1 => prevRet > ret)

C5_Witness ==
    Returned /\ prevN = 3 /\ prevRet = 6 /\ n = 4 /\ ret = 7

\* C6: the result is a function of n alone: two calls with the same n
\* that both return, return the same value.
C6_Deterministic ==
    (Returned /\ prevRet # Unset /\ prevN = n) => ret = prevRet

\* C7: when the allocation fails the call fails fast: from the NULL test it
\* goes to the fatal exit only, and it has initialised no loop variable,
\* touched no cell and produced no return value.
C7_AllocFailureFailsFast ==
    /\ (bufstate = "null" =>
          /\ pc \in {"nullcheck", "exited"}
          /\ count = Unset /\ i = Unset /\ j = Unset
          /\ is_prime = << >>
          /\ ret = Unset
          /\ outcome \in {"running", "exit1"})
    /\ (pc = "exited" <=> outcome = "exit1")
    /\ (pc = "exited" => bufstate = "null")

C7_Witness ==
    /\ pc = "exited" /\ outcome = "exit1" /\ bufstate = "null"
    /\ InCheckedRange(n) /\ limit = CeilEstimate(n)

\* C8: when an integer quantity of the call leaves the int range, the call
\* fails explicitly; no wrapped value is stored in limit (and so used as the
\* buffer size or the loop bound) and no wrapped j is used as an index.
C8_NoWraparound ==
    n >= 2 =>
        /\ (limit # Unset => (EstimateFits(n) /\ limit = CeilEstimate(n)))
        /\ (pc \in {"mark_test", "mark_write"} => j >= 2 * i)

\* C9: every call of the checked range terminates, by returning a value or
\* by the fatal allocation-failure exit; each scan iteration increases i by
\* one while i <= limit + 1, and each marking step increases j by i >= 2
\* while j <= limit.
C9_Terminates ==
    /\ (pc = "entry" /\ n <= MaxN) ~> (Returned \/ pc = "exited")
    /\ [][(n <= MaxN /\ pc = "incr") =>
             (i <= limit + 1 /\ i' = i + 1)]_vars
    /\ [][(n <= MaxN /\ pc = "mark_write") =>
             (i >= 2 /\ j <= limit /\ j' = j + i)]_vars

C9_Witness ==
    Returned /\ n = MaxN /\ bufstate = "freed" /\ ret = NthPrime(MaxN)

\* C10: sieve loop invariant: for every n >= 2, when the scan loop is about
\* to test i with 2 <= i <= limit, (a) cell i is unmarked iff i is prime,
\* (b) count is 1 plus the number of primes below i, (c) every marked cell
\* is a multiple k*p, k >= 2, of a prime p < i; hence the loop breaks at i
\* exactly when i is the n-th prime.
SieveInvariantAt ==
    /\ (is_prime[i] = 0 <=> IsPrimeNumber(i))
    /\ count = 1 + Cardinality(PrimesBelow(i))
    /\ \A k \in DOMAIN is_prime :
          is_prime[k] = 1 =>
             \E p \in PrimesBelow(i) : k % p = 0 /\ k >= 2 * p
    /\ ((is_prime[i] = 0 /\ count = n) <=> i = NthPrime(n))

C10_SieveInvariant ==
    (n >= 2 /\ pc = "read" /\ i \in 2..limit) => SieveInvariantAt

\* The same invariant over the inputs 2..MaxN only, where no int quantity
\* of the call leaves the int range: there it holds.
SieveInvariantInCheckedRange ==
    (n \in 2..MaxN /\ pc = "read" /\ i \in 2..limit) => SieveInvariantAt

====
